---- MODULE Spec2Model ----
(***************************************************************************)
(* Model of the zip-templates crate (src/rust/src/lib.rs):                 *)
(*   ZipTemplate::parse / parse_with_capacity, ZipTemplate::render,        *)
(*   ZipTemplate::render_from_vec and flatten_json.                        *)
(* A Rust String is modelled as a sequence of one-character strings; byte  *)
(* offsets are 0-based as in the source (all modelled characters are       *)
(* ASCII, so byte offsets and character offsets coincide).                 *)
(***************************************************************************)
EXTENDS Integers, Sequences, FiniteSets, TLC

VARIABLES template, cursor, statics, placeholders, pre_emptive_size, pc, call

vars == <<template, cursor, statics, placeholders, pre_emptive_size, pc, call>>

(***************************************************************************)
(* Bounds of the model.                                                    *)
(***************************************************************************)
MaxPieces == 4
MaxVals == 2
MaxNodes == 4
MaxParsePieces == 2

(***************************************************************************)
(* Strings.                                                                *)
(***************************************************************************)
EmptyStr == <<>>
OpenMarker == <<"{", "{">>
CloseMarker == <<"}", "}">>
NoMatch == -1

\* &s[from..to] with 0-based byte offsets, to exclusive
Slice(s, from, to) == SubSeq(s, from + 1, to)

\* &s[from..]
SliceFrom(s, from) == SubSeq(s, from + 1, Len(s))

Min(S) == CHOOSE x \in S : \A y \in S : x <= y

\* str::find(pat): offset of the first occurrence of pat in s, NoMatch for None
Find(s, pat) ==
    LET hits == {i \in 0..(Len(s) - Len(pat)) : Slice(s, i, i + Len(pat)) = pat}
    IN IF hits = {} THEN NoMatch ELSE Min(hits)

IsWhitespace(c) == c \in {" ", "\t", "\n", "\r"}

\* str::trim(): leading and trailing whitespace removed
Trim(s) ==
    LET keep == {i \in 1..Len(s) : ~IsWhitespace(s[i])}
    IN IF keep = {} THEN EmptyStr
       ELSE SubSeq(s, Min(keep), CHOOSE i \in keep : \A j \in keep : j <= i)

RECURSIVE Concat(_)
\* concatenation of a sequence of strings
Concat(ss) == IF ss = <<>> THEN EmptyStr ELSE Head(ss) \o Concat(Tail(ss))

(***************************************************************************)
(* Templates handed to parse: concatenations of at most MaxPieces pieces.  *)
(***************************************************************************)
Pieces ==
    { <<"{">>, <<"}">>, <<" ">>, <<"a">>,
      <<"{", "{", "}", "}">>,
      <<"{", "{", " ", "}", "}">>,
      <<"{", "{", " ", "a", " ", "}", "}">> }

RECURSIVE PieceSeqs(_)
PieceSeqs(n) ==
    IF n = 0 THEN {<<>>}
    ELSE LET shorter == PieceSeqs(n - 1)
         IN shorter \cup {Append(q, p) : q \in shorter, p \in Pieces}

Templates(maxPieces) == {Concat(q) : q \in PieceSeqs(maxPieces)}

(***************************************************************************)
(* ZipTemplate::parse / parse_with_capacity                                *)
(***************************************************************************)
\* parse: (template.len() as f32 * 1.5) as usize
ParseCapacity(t) == (3 * Len(t)) \div 2

\* template[cursor..].find("{{") turned into open_idx, NoMatch when None
OpenIdx(t, cur) ==
    LET start_offset == Find(SliceFrom(t, cur), OpenMarker)
    IN IF start_offset = NoMatch THEN NoMatch ELSE cur + start_offset

\* template[open_idx + 2..].find("}}") turned into close_idx, NoMatch when None
CloseIdx(t, open_idx) ==
    LET end_offset == Find(SliceFrom(t, open_idx + 2), CloseMarker)
    IN IF end_offset = NoMatch THEN NoMatch ELSE open_idx + 2 + end_offset

\* template[cursor..open_idx].to_string()
StaticBefore(t, cur, open_idx) == Slice(t, cur, open_idx)

\* mutant: the placeholder content is stored without trimming
PlaceholderKey_Untrimmed(t, open_idx, close_idx) == Slice(t, open_idx + 2, close_idx)

\* template[open_idx + 2..close_idx].trim().to_string()
PlaceholderKey(t, open_idx, close_idx) == Trim(Slice(t, open_idx + 2, close_idx))

\* mutant: the cursor stops on the close marker instead of past it
CursorAfter_OnCloseMarker(close_idx) == close_idx

\* mutant: the cursor stops one byte short, on the second "}" of the close marker
CursorAfter_OneShort(close_idx) == close_idx + 1

\* cursor = close_idx + 2
CursorAfter(close_idx) == close_idx + 2

\* mutant: the remainder starts at the unmatched open marker instead of the cursor
Remainder_FromOpenMarker(t, cur) ==
    IF OpenIdx(t, cur) = NoMatch THEN SliceFrom(t, cur) ELSE SliceFrom(t, OpenIdx(t, cur))

\* template[cursor..].to_string()
Remainder(t, cur) == SliceFrom(t, cur)

\* mutant: the sentinel is never pushed
AlignPlaceholders_NoSentinel(phs, sts) == phs

\* if placeholders.len() < statics.len() { placeholders.push(String::new()) }
AlignPlaceholders(phs, sts) ==
    IF Len(phs) < Len(sts) THEN Append(phs, EmptyStr) ELSE phs

\* the code after the scan loop: push the remainder, align, build the ZipTemplate
Finish ==
    /\ statics' = Append(statics, Remainder(template, cursor))
    /\ placeholders' = AlignPlaceholders(placeholders, statics')
    /\ pc' = "done"
    /\ UNCHANGED <<template, cursor, pre_emptive_size, call>>

\* one iteration of the while-let loop that finds a complete placeholder
ScanPlaceholder ==
    /\ pc = "scan"
    /\ LET open_idx == OpenIdx(template, cursor)
       IN /\ open_idx # NoMatch
          /\ LET close_idx == CloseIdx(template, open_idx)
             IN /\ close_idx # NoMatch
                /\ statics' = Append(statics, StaticBefore(template, cursor, open_idx))
                /\ placeholders' = Append(placeholders,
                                          PlaceholderKey(template, open_idx, close_idx))
                /\ cursor' = CursorAfter(close_idx)
    /\ UNCHANGED <<template, pre_emptive_size, pc, call>>

\* the while-let condition fails: no "{{" is left after the cursor
ScanEnd ==
    /\ pc = "scan"
    /\ OpenIdx(template, cursor) = NoMatch
    /\ Finish

\* "{{" found but no "}}" after it: break
ScanBreak ==
    /\ pc = "scan"
    /\ OpenIdx(template, cursor) # NoMatch
    /\ CloseIdx(template, OpenIdx(template, cursor)) = NoMatch
    /\ Finish

(***************************************************************************)
(* ZipTemplate::render_from_vec / ZipTemplate::render                      *)
(***************************************************************************)
RECURSIVE RenderLoop_Zip(_, _)
\* mutant: statics.iter().zip(dynamics), which stops at the shorter of the two
RenderLoop_Zip(sts, dyn) ==
    IF sts = <<>> \/ dyn = <<>> THEN EmptyStr
    ELSE Head(sts) \o Head(dyn) \o RenderLoop_Zip(Tail(sts), Tail(dyn))

RECURSIVE RenderLoop(_, _)
\* for s in statics { out.push_str(s); if let Some(d) = dynamics_iter.next() { out.push_str(d) } }
RenderLoop(sts, dyn) ==
    IF sts = <<>> THEN EmptyStr
    ELSE IF dyn = <<>> THEN Head(sts) \o RenderLoop(Tail(sts), dyn)
    ELSE Head(sts) \o Head(dyn) \o RenderLoop(Tail(sts), Tail(dyn))

\* mutant: a missing key echoes the placeholder key
Lookup_EchoKey(flat, placeholder) ==
    IF placeholder \in DOMAIN flat THEN flat[placeholder] ELSE placeholder

\* flat.get(placeholder).map_or("", String::as_str)
Lookup(flat, placeholder) ==
    IF placeholder \in DOMAIN flat THEN flat[placeholder] ELSE EmptyStr

\* placeholders.iter().map(|p| lookup).collect()
Dynamics(phs, flat) == [i \in 1..Len(phs) |-> Lookup(flat, phs[i])]

MapKeys == {EmptyStr, <<"a">>}
MapValues == {<<"x">>, <<"}">>}

\* the flat maps handed to render
FlatMaps == UNION {[ks -> MapValues] : ks \in SUBSET MapKeys}

ListValues == {EmptyStr, <<"x">>}

RECURSIVE ListsUpTo(_)
ListsUpTo(n) ==
    IF n = 0 THEN {<<>>}
    ELSE LET shorter == ListsUpTo(n - 1)
         IN shorter \cup {Append(l, v) : l \in shorter, v \in ListValues}

\* the value lists handed to render_from_vec
DynamicLists(maxVals) == ListsUpTo(maxVals)

\* render(&self, flat); repeat records that a render call on the same parsed
\* template came before this one
Render ==
    /\ pc = "done"
    /\ \E flat \in FlatMaps :
          call' = [op |-> "render", flat |-> flat,
                   out |-> RenderLoop(statics, Dynamics(placeholders, flat)),
                   repeat |-> call.op # "none"]
    /\ UNCHANGED <<template, cursor, statics, placeholders, pre_emptive_size, pc>>

\* mutant: the loop drains self.statics instead of borrowing it
RenderFromVec_Draining ==
    /\ pc = "done"
    /\ \E dynamics \in DynamicLists(MaxVals) :
          call' = [op |-> "render_from_vec", dynamics |-> dynamics,
                   out |-> RenderLoop(statics, dynamics),
                   repeat |-> call.op # "none"]
    /\ statics' = <<>>
    /\ UNCHANGED <<template, cursor, placeholders, pre_emptive_size, pc>>

\* render_from_vec(&self, dynamics)
RenderFromVec ==
    /\ pc = "done"
    /\ \E dynamics \in DynamicLists(MaxVals) :
          call' = [op |-> "render_from_vec", dynamics |-> dynamics,
                   out |-> RenderLoop(statics, dynamics),
                   repeat |-> call.op # "none"]
    /\ UNCHANGED <<template, cursor, statics, placeholders, pre_emptive_size, pc>>

(***************************************************************************)
(* serde_json::Value.  An object is the sequence of its (key, value)       *)
(* entries in the iteration order of serde_json::Map, keys unique.         *)
(***************************************************************************)
Null == [t |-> "null"]
Bool(b) == [t |-> "bool", b |-> b]
Number(n) == [t |-> "number", n |-> n]
Str(s) == [t |-> "string", s |-> s]
Arr(items) == [t |-> "array", items |-> items]
Obj(fields) == [t |-> "object", fields |-> fields]

Quote == "\""
Backslash == "\\"

DigitChar(d) == <<"0", "1", "2", "3", "4", "5", "6", "7", "8", "9">>[d + 1]

RECURSIVE Decimal(_)
\* usize::to_string / Display of a non-negative integer
Decimal(n) == IF n < 10 THEN <<DigitChar(n)>> ELSE Decimal(n \div 10) \o <<DigitChar(n % 10)>>

RECURSIVE JsonEscape(_)
\* serde_json's string escaping: a quote and a backslash get a backslash in front
JsonEscape(s) ==
    IF s = <<>> THEN EmptyStr
    ELSE (IF Head(s) \in {Quote, Backslash} THEN <<Backslash, Head(s)>> ELSE <<Head(s)>>)
         \o JsonEscape(Tail(s))

\* Value::to_string() of a scalar: the JSON text of the value
ToJsonText(value) ==
    CASE value.t = "string" -> <<Quote>> \o JsonEscape(value.s) \o <<Quote>>
      [] value.t = "number" -> Decimal(value.n)
      [] value.t = "bool" -> IF value.b THEN <<"t", "r", "u", "e">> ELSE <<"f", "a", "l", "s", "e">>
      [] value.t = "null" -> <<"n", "u", "l", "l">>

\* str::trim_matches(c): every leading and every trailing c removed
TrimMatches(s, c) ==
    LET keep == {i \in 1..Len(s) : s[i] # c}
    IN IF keep = {} THEN EmptyStr
       ELSE SubSeq(s, Min(keep), CHOOSE i \in keep : \A j \in keep : j <= i)

\* value.to_string().trim_matches('"').to_string()
ScalarText(value) == TrimMatches(ToJsonText(value), Quote)

\* FxHashMap::insert: the entry for k is created or overwritten
Insert(out, k, v) == [x \in (DOMAIN out) \cup {k} |-> IF x = k THEN v ELSE out[x]]

\* mutant: the separator is written even when the prefix is empty
ObjectPrefix_AlwaysDot(prefix, k) == prefix \o <<".">> \o k

\* new_prefix in the Object arm
ObjectPrefix(prefix, k) ==
    IF prefix = EmptyStr THEN k ELSE prefix \o <<".">> \o k

\* mutant: every element gets the index of the first
ArrayPrefix_FirstIndex(prefix, i) ==
    IF prefix = EmptyStr THEN Decimal(0) ELSE prefix \o <<".">> \o Decimal(0)

\* new_prefix in the Array arm, i the 0-based index
ArrayPrefix(prefix, i) ==
    IF prefix = EmptyStr THEN Decimal(i) ELSE prefix \o <<".">> \o Decimal(i)

RECURSIVE helper(_, _, _), ObjectLoop(_, _, _, _), ArrayLoop(_, _, _, _)
\* fn helper(value, prefix, out): the map after the call
helper(value, prefix, out) ==
    CASE value.t = "object" -> ObjectLoop(value.fields, 1, prefix, out)
      [] value.t = "array" -> ArrayLoop(value.items, 1, prefix, out)
      [] value.t = "null" -> Insert(out, prefix, EmptyStr)
      [] OTHER -> Insert(out, prefix, ScalarText(value))

\* for (k, v) in map { helper(v, new_prefix, out) }, from the n-th entry on
ObjectLoop(fields, n, prefix, out) ==
    IF n > Len(fields) THEN out
    ELSE ObjectLoop(fields, n + 1, prefix,
                    helper(fields[n][2], ObjectPrefix(prefix, fields[n][1]), out))

\* for (i, v) in arr.iter().enumerate() { helper(v, new_prefix, out) }, from the n-th element on
ArrayLoop(items, n, prefix, out) ==
    IF n > Len(items) THEN out
    ELSE ArrayLoop(items, n + 1, prefix,
                   helper(items[n], ArrayPrefix(prefix, n - 1), out))

EmptyMap == [x \in {} |-> EmptyStr]

flatten_json(value) == helper(value, EmptyStr, EmptyMap)

(***************************************************************************)
(* The values handed to flatten_json: every scalar below, and every value  *)
(* of at most MaxNodes nodes over the leaves and object keys below.        *)
(***************************************************************************)
Leaves == { Null, Str(<<"s">>) }

Scalars ==
    Leaves \cup { Bool(TRUE), Bool(FALSE), Number(0), Number(12), Str(EmptyStr), Str(<<"s", Quote>>),
                  Str(<<Quote, "s">>), Str(<<"s", Quote, "s">>), Str(<<"s", Backslash>>) }

ObjectKeys == { EmptyStr, <<"0">>, <<"0", ".", "0">> }

RECURSIVE ValuesOfSize(_), ItemsOfSize(_), FieldsOfSize(_)
\* the values with exactly n nodes
ValuesOfSize(n) ==
    IF n = 1 THEN Leaves \cup {Arr(<<>>), Obj(<<>>)}
    ELSE {Arr(items) : items \in ItemsOfSize(n - 1)}
         \cup {Obj(fields) : fields \in FieldsOfSize(n - 1)}

\* the non-empty sequences of values with n nodes in total
ItemsOfSize(n) ==
    {<<v>> : v \in ValuesOfSize(n)}
    \cup UNION {{<<v>> \o rest : v \in ValuesOfSize(j), rest \in ItemsOfSize(n - j)} : j \in 1..(n - 1)}

\* the non-empty sequences of entries with unique keys and n nodes in total
FieldsOfSize(n) ==
    {<<<<k, v>>>> : k \in ObjectKeys, v \in ValuesOfSize(n)}
    \cup UNION {{f \in {<<<<k, v>>>> \o rest : k \in ObjectKeys, v \in ValuesOfSize(j),
                                             rest \in FieldsOfSize(n - j)} :
                   \A i \in 2..Len(f) : f[i][1] # f[1][1]}
                : j \in 1..(n - 1)}

JsonValues(maxNodes) == Scalars \cup UNION {ValuesOfSize(n) : n \in 1..maxNodes}

FlattenJson ==
    /\ call = [op |-> "none"]
    /\ \E value \in JsonValues(MaxNodes) :
          call' = [op |-> "flatten_json", value |-> value, out |-> flatten_json(value)]
    /\ UNCHANGED <<template, cursor, statics, placeholders, pre_emptive_size, pc>>

NoCall == [op |-> "none"]

Init ==
    /\ template \in Templates(MaxPieces)
    /\ cursor = 0
    /\ statics = <<>>
    /\ placeholders = <<>>
    /\ pre_emptive_size = ParseCapacity(template)
    /\ pc = "scan"
    /\ call = NoCall

Next ==
    \/ ScanPlaceholder
    \/ ScanEnd
    \/ ScanBreak
    \/ Render
    \/ RenderFromVec

Spec == Init /\ [][Next]_vars

\* parse on its own, on the templates of at most MaxParsePieces pieces: the
\* call is synchronous and runs until it returns, hence the weak fairness
InitParse ==
    /\ template \in Templates(MaxParsePieces)
    /\ cursor = 0
    /\ statics = <<>>
    /\ placeholders = <<>>
    /\ pre_emptive_size = ParseCapacity(template)
    /\ pc = "scan"
    /\ call = NoCall

NextParse ==
    \/ ScanPlaceholder
    \/ ScanEnd
    \/ ScanBreak

SpecParse == InitParse /\ [][NextParse]_vars /\ WF_vars(NextParse)

(***************************************************************************)
(* Vocabulary of the properties.                                           *)
(***************************************************************************)
IsOpenAt(t, j) == j + 1 <= Len(t) /\ t[j] = "{" /\ t[j + 1] = "{"
IsCloseAt(t, j) == j + 1 <= Len(t) /\ t[j] = "}" /\ t[j + 1] = "}"

\* 1-based position of the first "{{" at or after position i, 0 if there is none
FirstOpen(t, i) ==
    LET opens == {j \in i..Len(t) : IsOpenAt(t, j)}
    IN IF opens = {} THEN 0 ELSE Min(opens)

\* 1-based position of the first "}}" that starts after the "{{" at position o, 0 if none
FirstClose(t, o) ==
    LET closes == {j \in (o + 2)..Len(t) : IsCloseAt(t, j)}
    IN IF closes = {} THEN 0 ELSE Min(closes)

RECURSIVE CompleteFrom(_, _)
\* number of complete {{...}} placeholders of t from position i on,
\* matched left to right, the first "}}" closing
CompleteFrom(t, i) ==
    LET o == FirstOpen(t, i)
        c == FirstClose(t, o)
    IN IF o = 0 \/ c = 0 THEN 0
       ELSE 1 + CompleteFrom(t, c + 2)

CompletePlaceholders(t) == CompleteFrom(t, 1)

RECURSIVE OutsideFrom(_, _)
\* the text of t from position i on that lies outside its complete placeholders
OutsideFrom(t, i) ==
    LET o == FirstOpen(t, i)
        c == FirstClose(t, o)
    IN IF o = 0 \/ c = 0 THEN SubSeq(t, i, Len(t))
       ELSE SubSeq(t, i, o - 1) \o OutsideFrom(t, c + 2)

OutsideText(t) == OutsideFrom(t, 1)

HasBrace(s) == \E i \in 1..Len(s) : s[i] \in {"{", "}"}
HasMarker(s) == \E i \in 1..Len(s) : IsOpenAt(s, i) \/ IsCloseAt(s, i)

IsPrefix(p, s) == Len(p) <= Len(s) /\ SubSeq(s, 1, Len(p)) = p

Last(q) == q[Len(q)]

\* number of placeholders of the parsed template that stand for a {{...}} of the text
RealSlots == Len(statics) - 1

\* static[1], vals[1], static[2], ..., vals[n], static[n+1] as one string
ZipText(sts, vals) ==
    Concat([i \in 1..(2 * Len(vals) + 1) |->
               IF i % 2 = 1 THEN sts[(i + 1) \div 2] ELSE vals[i \div 2]])

\* the values a map gives the real placeholders: its entry, empty text without one
Resolved(flat) ==
    [i \in 1..RealSlots |->
        IF placeholders[i] \in DOMAIN flat THEN flat[placeholders[i]] ELSE EmptyStr]

\* the values a list gives the real placeholders: the i-th element, empty text past its end
Positional(dynamics) ==
    [i \in 1..RealSlots |-> IF i <= Len(dynamics) THEN dynamics[i] ELSE EmptyStr]

Rendered == call.op \in {"render", "render_from_vec"}

(***************************************************************************)
(* Parser and renderer properties.                                         *)
(***************************************************************************)
\* C1: a template with k complete placeholders parses into exactly k+1 static
\* segments and k+1 placeholder keys, the last key being the empty sentinel.
C1_SegmentCounts ==
    pc = "done" =>
        /\ Len(placeholders) = Len(statics)
        /\ Last(placeholders) = EmptyStr
        /\ Len(statics) = CompletePlaceholders(template) + 1

C1_Witness ==
    /\ pc = "done"
    /\ CompletePlaceholders(template) = 2
    /\ HasMarker(Last(statics))

\* C2: the sentinel placeholder resolves to empty text: whatever the map or the
\* value list, the output ends with the final static segment and nothing follows it.
C2_SentinelRendersEmpty ==
    Rendered =>
        LET vals == IF call.op = "render" THEN Resolved(call.flat)
                    ELSE Positional(call.dynamics)
            body == Concat([i \in 1..(2 * RealSlots) |->
                               IF i % 2 = 1 THEN statics[(i + 1) \div 2] ELSE vals[i \div 2]])
        IN call.out = body \o Last(statics)

\* C3: render puts, between static[i] and static[i+1], the map's value for the
\* i-th key when the map has it and nothing when it has not (no error, no echo
\* of the placeholder), the static segments keeping their order.
C3_LookupByName ==
    call.op = "render" => IsPrefix(ZipText(statics, Resolved(call.flat)), call.out)

C3_Witness ==
    /\ call.op = "render"
    /\ RealSlots = 2
    /\ placeholders[1] \in DOMAIN call.flat
    /\ placeholders[2] # EmptyStr
    /\ placeholders[2] \notin DOMAIN call.flat

\* C4: render_from_vec gives the i-th placeholder the i-th value, empty text to
\* the placeholders past the end of the list, and ignores the values past the
\* placeholder count.
C4_Positional ==
    call.op = "render_from_vec" =>
        call.out = ZipText(statics, Positional(call.dynamics))

\* C5 as stated: when the map supplies every placeholder key, the output is the
\* template with the substitutions applied and holds no "{{" or "}}".  The
\* markers are looked for in the text up to the end of the final static
\* segment, so that what render puts after it (C2) plays no part.
C5_NoResidualMarkers ==
    (call.op = "render" /\ \A i \in 1..RealSlots : placeholders[i] \in DOMAIN call.flat) =>
        /\ IsPrefix(ZipText(statics, Resolved(call.flat)), call.out)
        /\ ~HasMarker(ZipText(statics, Resolved(call.flat)))

\* C5 amended: the same, for a template whose text outside its complete
\* placeholders has no brace and a map none of whose values has a brace.
C5_NoResidualMarkersBraceFree ==
    ( /\ call.op = "render"
      /\ \A i \in 1..RealSlots : placeholders[i] \in DOMAIN call.flat
      /\ ~HasBrace(OutsideText(template))
      /\ \A k \in DOMAIN call.flat : ~HasBrace(call.flat[k]) ) =>
        /\ IsPrefix(ZipText(statics, Resolved(call.flat)), call.out)
        /\ ~HasMarker(call.out)

C5_Witness ==
    /\ call.op = "render"
    /\ RealSlots = 2
    /\ \A i \in 1..RealSlots : placeholders[i] \in DOMAIN call.flat
    /\ placeholders[1] # placeholders[2]
    /\ ~HasBrace(OutsideText(template))
    /\ OutsideText(template) # EmptyStr
    /\ \A k \in DOMAIN call.flat : ~HasBrace(call.flat[k])

\* C6: a "{{" without a "}}" after it ends the scan: the text from the cursor to
\* the end, the "{{" included, is the final static segment, the placeholders
\* found before it are kept and none is recognised after it.
C6_UnterminatedMarker ==
    (pc = "done" /\ FirstOpen(template, cursor + 1) # 0) =>
        /\ Last(statics) = SubSeq(template, cursor + 1, Len(template))
        /\ HasMarker(Last(statics))
        /\ Len(statics) = CompletePlaceholders(template) + 1
        /\ Len(placeholders) = Len(statics)
        /\ Last(placeholders) = EmptyStr

C6_Witness ==
    /\ pc = "done"
    /\ FirstOpen(template, cursor + 1) > cursor + 1
    /\ RealSlots = 1

\* C10: a template without a placeholder renders to itself with an empty map,
\* with an empty value list and with the single value "".
C10_NoPlaceholderIdentity ==
    ( /\ \/ call.op = "render" /\ DOMAIN call.flat = {}
         \/ call.op = "render_from_vec" /\ call.dynamics \in {<<>>, <<EmptyStr>>}
      /\ CompletePlaceholders(template) = 0 ) =>
        call.out = template

C10_Witness ==
    /\ call.op = "render_from_vec"
    /\ call.dynamics = <<EmptyStr>>
    /\ CompletePlaceholders(template) = 0
    /\ HasMarker(template)
    /\ call.out = template


(***************************************************************************)
(* Placeholder keys.                                                       *)
(***************************************************************************)
RECURSIVE RawKeysFrom(_, _)
\* the texts strictly between each "{{" of t and the first "}}" after it,
\* from position i on, left to right
RawKeysFrom(t, i) ==
    LET o == FirstOpen(t, i)
        c == FirstClose(t, o)
    IN IF o = 0 \/ c = 0 THEN <<>>
       ELSE <<SubSeq(t, o + 2, c - 1)>> \o RawKeysFrom(t, c + 2)

RawKeys(t) == RawKeysFrom(t, 1)

Blank(c) == c \in {" ", "\t", "\n", "\r"}

\* key is raw without its leading and trailing whitespace
IsTrimmed(key, raw) ==
    /\ key = <<>> \/ (~Blank(key[1]) /\ ~Blank(key[Len(key)]))
    /\ \E a \in 0..Len(raw) :
          /\ a + Len(key) <= Len(raw)
          /\ SubSeq(raw, a + 1, a + Len(key)) = key
          /\ \A j \in 1..Len(raw) : (j <= a \/ j > a + Len(key)) => Blank(raw[j])

\* number of keys pushed by the scan loop (the sentinel is not one of them)
KeysFound == IF pc = "done" THEN Len(placeholders) - 1 ELSE Len(placeholders)

\* C12: every key produced by the scan is the text strictly between a "{{" and
\* the first "}}" after it with leading and trailing whitespace removed: it
\* holds no "}}", neither starts nor ends with whitespace, keeps a nested "{{"
\* as key text, and is empty for "{{}}" and for a whitespace-only placeholder.
C12_PlaceholderKeys ==
    LET raw == RawKeys(template)
    IN /\ KeysFound <= Len(raw)
       /\ \A i \in 1..KeysFound :
             /\ IsTrimmed(placeholders[i], raw[i])
             /\ ~\E j \in 1..Len(placeholders[i]) : IsCloseAt(placeholders[i], j)
             /\ (\A j \in 1..Len(raw[i]) : Blank(raw[i][j])) => placeholders[i] = EmptyStr

C12_Witness ==
    /\ pc = "done"
    /\ KeysFound = 1
    /\ \E j \in 1..Len(placeholders[1]) : IsOpenAt(placeholders[1], j)
    /\ placeholders[1] # RawKeys(template)[1]

(***************************************************************************)
(* Termination of parse.                                                   *)
(***************************************************************************)
\* the cursor and the bounds of every slice the next iteration takes lie in
\* 0..len(template), in the order the slices need
SliceBoundsOk ==
    /\ 0 <= cursor /\ cursor <= Len(template)
    /\ pc = "scan" =>
          LET open_idx == OpenIdx(template, cursor)
              close_idx == CloseIdx(template, open_idx)
          IN open_idx # NoMatch =>
                /\ cursor <= open_idx /\ open_idx + 2 <= Len(template)
                /\ close_idx # NoMatch =>
                      (open_idx + 2 <= close_idx /\ close_idx + 2 <= Len(template))

\* C13: parse terminates and never fails: an iteration of the scan loop stops
\* the scan or moves the cursor at least four bytes forward, the cursor and
\* the slice bounds stay within 0..len(template), and at most len(template)/4
\* placeholders are found.
C13_ParseTerminates ==
    /\ [](SliceBoundsOk /\ 4 * KeysFound <= cursor)
    /\ [][pc = "scan" => (pc' = "done" \/ cursor' >= cursor + 4)]_vars
    /\ <>(pc = "done")

C13_Witness ==
    /\ pc = "done"
    /\ KeysFound = 2
    /\ cursor = Len(template)
    /\ 4 * KeysFound = Len(template)

(***************************************************************************)
(* Rendering is pure.                                                      *)
(***************************************************************************)
\* what a call puts after the i-th static segment of the parsed template
SlotValue(c, i) ==
    IF c.op = "render"
    THEN (IF placeholders[i] \in DOMAIN c.flat THEN c.flat[placeholders[i]] ELSE EmptyStr)
    ELSE (IF i <= Len(c.dynamics) THEN c.dynamics[i] ELSE EmptyStr)

RECURSIVE OutputFrom(_, _)
\* the static segments from the i-th on, each followed by what the call puts after it
OutputFrom(c, i) ==
    IF i > Len(statics) THEN EmptyStr
    ELSE statics[i] \o SlotValue(c, i) \o OutputFrom(c, i + 1)

\* the output of a call made on the parsed template on its own
OutputAlone(c) == OutputFrom(c, 1)

\* the same operation with the same value source
SameRequest(c, d) ==
    /\ c.op = d.op
    /\ c.op = "render" => c.flat = d.flat
    /\ c.op = "render_from_vec" => c.dynamics = d.dynamics

\* C11: a render or render_from_vec call leaves the parsed template (statics,
\* placeholders, capacity hint) as it was, returns what it returns on its own
\* whatever calls came before it, and returns the output of the previous call
\* when it repeats that call's inputs.
C11_RenderIsPure ==
    /\ [](Rendered => call.out = OutputAlone(call))
    /\ [][ (call' # call /\ call'.op \in {"render", "render_from_vec"}) =>
             /\ template' = template
             /\ statics' = statics
             /\ placeholders' = placeholders
             /\ pre_emptive_size' = pre_emptive_size
             /\ (Rendered /\ SameRequest(call, call')) => call'.out = call.out ]_vars

C11_Witness ==
    /\ Rendered
    /\ call.repeat
    /\ RealSlots >= 1
    /\ call.out # Concat(statics)

(***************************************************************************)
(* Flattener properties.                                                   *)
(***************************************************************************)
IsContainer(value) == value.t \in {"array", "object"}

\* the children of a container, each with the path segment that leads to it
Children(value) ==
    IF value.t = "array"
    THEN [i \in 1..Len(value.items) |-> <<Decimal(i - 1), value.items[i]>>]
    ELSE value.fields

RECURSIVE LeafPaths(_)
\* the leaves of a value, each as <<path from the root, leaf>>
LeafPaths(value) ==
    IF ~IsContainer(value) THEN {<<<<>>, value>>}
    ELSE UNION {{<<<<Children(value)[i][1]>> \o lp[1], lp[2]>> :
                    lp \in LeafPaths(Children(value)[i][2])} :
                i \in 1..Len(Children(value))}

RECURSIVE NumLeaves(_), SumLeaves(_, _)
NumLeaves(value) ==
    IF ~IsContainer(value) THEN 1 ELSE SumLeaves(Children(value), 1)

SumLeaves(children, n) ==
    IF n > Len(children) THEN 0
    ELSE NumLeaves(children[n][2]) + SumLeaves(children, n + 1)

RECURSIVE JoinPath(_, _)
\* the segments joined with ".", no "." being written while the text is still empty
JoinPath(acc, path) ==
    IF path = <<>> THEN acc
    ELSE JoinPath(IF acc = EmptyStr THEN Head(path) ELSE acc \o <<".">> \o Head(path),
                  Tail(path))

PathKey(path) == JoinPath(EmptyStr, path)

RECURSIVE PlainKeys(_)
\* no object key of the value, at any depth, is empty or contains "."
PlainKeys(value) ==
    \/ ~IsContainer(value)
    \/ /\ value.t = "array"
       /\ \A i \in 1..Len(value.items) : PlainKeys(value.items[i])
    \/ /\ value.t = "object"
       /\ \A i \in 1..Len(value.fields) :
             /\ value.fields[i][1] # EmptyStr
             /\ \A j \in 1..Len(value.fields[i][1]) : value.fields[i][1][j] # "."
             /\ PlainKeys(value.fields[i][2])

Flattened == call.op = "flatten_json"

\* C7 as stated: one entry per leaf, whatever the object keys are.
C7_OneEntryPerLeaf ==
    Flattened => Cardinality(DOMAIN call.out) = NumLeaves(call.value)

\* C7 amended: one entry per leaf when no object key is empty or contains ".".
C7_OneEntryPerLeafPlainKeys ==
    (Flattened /\ PlainKeys(call.value)) =>
        Cardinality(DOMAIN call.out) = NumLeaves(call.value)

C7_Witness ==
    /\ Flattened
    /\ PlainKeys(call.value)
    /\ call.value.t = "array"
    /\ \E i \in 1..Len(call.value.items) : call.value.items[i].t = "object"
    /\ NumLeaves(call.value) = 2

\* C8: a string leaf is stored as its raw content, character for character.
C8_StringStoredRaw ==
    Flattened =>
        \A lp \in LeafPaths(call.value) :
            ( /\ lp[2].t = "string"
              /\ \A other \in LeafPaths(call.value) :
                    PathKey(other[1]) = PathKey(lp[1]) => other = lp )
            => call.out[PathKey(lp[1])] = lp[2].s

\* C9: the keys of the flat map are the paths of the leaves, object keys and
\* decimal array indices joined with "." and no leading "."; a scalar root is
\* under the empty key and a container has no entry of its own.
C9_PathKeys ==
    Flattened =>
        /\ DOMAIN call.out = {PathKey(lp[1]) : lp \in LeafPaths(call.value)}
        /\ ~IsContainer(call.value) => DOMAIN call.out = {EmptyStr}

C9_Witness ==
    /\ Flattened
    /\ call.value.t = "object"
    /\ Len(call.value.fields) = 1
    /\ call.value.fields[1][2].t = "array"
    /\ DOMAIN call.out = {<<"0", ".", "0">>, <<"0", ".", "1">>}

\* flatten_json does not depend on a template: it is checked on its own
InitFlatten ==
    /\ template = EmptyStr
    /\ cursor = 0
    /\ statics = <<>>
    /\ placeholders = <<>>
    /\ pre_emptive_size = ParseCapacity(template)
    /\ pc = "scan"
    /\ call = NoCall

NextFlatten == FlattenJson

SpecFlatten == InitFlatten /\ [][NextFlatten]_vars

====
